---- MODULE Spec2Model ----
(***************************************************************************)
(* Model of the LIS2DH12 accelerometer driver (src/LIS2DH12.py): the       *)
(* control-register image and its encoders, modify(), and the soft-PWM     *)
(* backlight chain driven by a one-shot machine.Timer.                     *)
(*                                                                         *)
(* Bytes are naturals 0..255.  Python's None is modelled by 0 for the      *)
(* integer bit mode, by -1 for the stored duty, by "" for strings and by   *)
(* the empty set for the sensors string (a string is the set of its        *)
(* characters; '' and None are both falsy in modify).  The write-only      *)
(* attributes self._sensors and self.data_rate are not modelled.           *)
(*                                                                         *)
(* machine.Timer(id) names hardware timer id; init() re-programs that      *)
(* timer, replacing an alarm that is still pending on it.  Dropping the    *)
(* Python reference (self._timer = None) does not disarm the hardware.     *)
(***************************************************************************)
EXTENDS Integers, Sequences, FiniteSets, TLC

VARIABLES _ctrl_reg, _bit_mode, _scale_factor, _scale_divide, _output_units,
          _backlight_duty, _stop_timer, _timer, alarms, dev, last

vars == <<_ctrl_reg, _bit_mode, _scale_factor, _scale_divide, _output_units,
          _backlight_duty, _stop_timer, _timer, alarms, dev, last>>

(* ---------------------------------------------------------------------- *)
(* Program constants                                                       *)
(* ---------------------------------------------------------------------- *)
BACKLIGHT_MIN == 0
BACKLIGHT_MAX == 10
_timer_value == 0
NoneMode == 0
NoneDuty == -1
NoneTimer == -1

(* ---------------------------------------------------------------------- *)
(* Bit operations on bytes                                                 *)
(* ---------------------------------------------------------------------- *)
RECURSIVE BitAnd(_, _)
BitAnd(a, b) ==
    IF a = 0 \/ b = 0 THEN 0
    ELSE (a % 2) * (b % 2) + 2 * BitAnd(a \div 2, b \div 2)

RECURSIVE BitOr(_, _)
BitOr(a, b) ==
    IF a = 0 THEN b
    ELSE IF b = 0 THEN a
    ELSE (IF (a % 2) + (b % 2) > 0 THEN 1 ELSE 0) + 2 * BitOr(a \div 2, b \div 2)

(* ustruct.pack('<b', x): one byte, the low 8 bits of x *)
PackB(x) == x % 256

(* ---------------------------------------------------------------------- *)
(* The driver object and its environment as one record                     *)
(* ---------------------------------------------------------------------- *)
World ==
    [ _ctrl_reg |-> _ctrl_reg, _bit_mode |-> _bit_mode,
      _scale_factor |-> _scale_factor, _scale_divide |-> _scale_divide,
      _output_units |-> _output_units, _backlight_duty |-> _backlight_duty,
      _stop_timer |-> _stop_timer, _timer |-> _timer,
      alarms |-> alarms, dev |-> dev,
      writes |-> <<>>, raised |-> "none" ]

(* fields assigned by __init__ before it calls modify *)
Fresh ==
    [ _ctrl_reg |-> [i \in 0..5 |-> 0], _bit_mode |-> NoneMode,
      _scale_factor |-> "", _scale_divide |-> 1,
      _output_units |-> "", _backlight_duty |-> NoneDuty,
      _stop_timer |-> FALSE, _timer |-> NoneTimer,
      alarms |-> {}, dev |-> [i \in 0..5 |-> 0],
      writes |-> <<>>, raised |-> "none" ]

SetReg(w, i, v) == [w EXCEPT !._ctrl_reg[i] = v]
Raise(w, e) == [w EXCEPT !.raised = e]

(* ---------------------------------------------------------------------- *)
(* Encoders                                                                *)
(* ---------------------------------------------------------------------- *)
(* variant: the mask 0xF0 also clears the low-power bit *)
_enable_sensors_f0(w, sensors) ==
    LET r0 == BitAnd(w._ctrl_reg[0], \hF0)
        r1 == IF "x" \in sensors THEN BitOr(r0, \h01) ELSE r0
        r2 == IF "y" \in sensors THEN BitOr(r1, \h02) ELSE r1
        r3 == IF "z" \in sensors THEN BitOr(r2, \h04) ELSE r2
    IN  SetReg(w, 0, r3)

_enable_sensors(w, sensors) ==
    LET r0 == BitAnd(w._ctrl_reg[0], \hF8)
        r1 == IF "x" \in sensors THEN BitOr(r0, \h01) ELSE r0
        r2 == IF "y" \in sensors THEN BitOr(r1, \h02) ELSE r1
        r3 == IF "z" \in sensors THEN BitOr(r2, \h04) ELSE r2
    IN  SetReg(w, 0, r3)

_measurement_size(w, bit_mode) ==
    LET c == [w EXCEPT !._ctrl_reg[0] = BitAnd(@, \hF7),
                       !._ctrl_reg[3] = BitAnd(@, \hF7)]
    IN  IF bit_mode = 10 THEN [c EXCEPT !._bit_mode = 10]
        ELSE IF bit_mode = 8
             THEN [c EXCEPT !._ctrl_reg[0] = BitOr(@, \h08), !._bit_mode = 8]
        ELSE IF bit_mode = 12
             THEN [c EXCEPT !._ctrl_reg[3] = BitOr(@, \h08), !._bit_mode = 12]
        ELSE Raise(c, "RuntimeError")

(* variant: 5.376kHz accepted without looking at the resolved mode *)
_data_rate_any_mode(w, data_rate) ==
    LET c == [w EXCEPT !._ctrl_reg[0] = BitAnd(@, \h0F)]
        Or0(v) == [c EXCEPT !._ctrl_reg[0] = BitOr(@, v)]
    IN  IF data_rate = "power-down" THEN c
        ELSE IF data_rate = "1Hz" THEN Or0(\h10)
        ELSE IF data_rate = "10Hz" THEN Or0(\h20)
        ELSE IF data_rate = "25Hz" THEN Or0(\h30)
        ELSE IF data_rate = "50Hz" THEN Or0(\h40)
        ELSE IF data_rate = "100Hz" THEN Or0(\h50)
        ELSE IF data_rate = "200Hz" THEN Or0(\h60)
        ELSE IF data_rate = "400Hz" THEN Or0(\h70)
        ELSE IF data_rate = "1.620kHz"
             THEN IF c._bit_mode = 8 THEN Or0(\h80) ELSE Raise(c, "NameError")
        ELSE IF data_rate = "1.344kHz"
             THEN IF c._bit_mode = 8 THEN Or0(\h90) ELSE Raise(c, "NameError")
        ELSE IF data_rate = "5.376kHz" THEN Or0(\h90)
        ELSE Raise(c, "RuntimeError")

_data_rate(w, data_rate) ==
    LET c == [w EXCEPT !._ctrl_reg[0] = BitAnd(@, \h0F)]
        Or0(v) == [c EXCEPT !._ctrl_reg[0] = BitOr(@, v)]
    IN  IF data_rate = "power-down" THEN c
        ELSE IF data_rate = "1Hz" THEN Or0(\h10)
        ELSE IF data_rate = "10Hz" THEN Or0(\h20)
        ELSE IF data_rate = "25Hz" THEN Or0(\h30)
        ELSE IF data_rate = "50Hz" THEN Or0(\h40)
        ELSE IF data_rate = "100Hz" THEN Or0(\h50)
        ELSE IF data_rate = "200Hz" THEN Or0(\h60)
        ELSE IF data_rate = "400Hz" THEN Or0(\h70)
        ELSE IF data_rate = "1.620kHz"
             THEN IF c._bit_mode = 8 THEN Or0(\h80) ELSE Raise(c, "NameError")
        ELSE IF data_rate = "1.344kHz"
             THEN IF c._bit_mode = 8 THEN Or0(\h90) ELSE Raise(c, "NameError")
        ELSE IF data_rate = "5.376kHz"
             THEN IF c._bit_mode = 10 \/ c._bit_mode = 12
                  THEN Or0(\h90) ELSE Raise(c, "NameError")
        ELSE Raise(c, "RuntimeError")

(* variant: the range code added to the register instead of OR-ed in *)
_scale_add(w, scale) ==
    LET c == [w EXCEPT !._ctrl_reg[3] = BitAnd(@, \h30)]
    IN  IF scale = "2g"
        THEN [c EXCEPT !._scale_factor = "2g", !._scale_divide = 16384]
        ELSE IF scale = "4g"
        THEN [c EXCEPT !._ctrl_reg[3] = @ + \h10,
                       !._scale_factor = "4g", !._scale_divide = 8192]
        ELSE IF scale = "8g"
        THEN [c EXCEPT !._ctrl_reg[3] = @ + \h20,
                       !._scale_factor = "8g", !._scale_divide = 4096]
        ELSE IF scale = "16g"
        THEN [c EXCEPT !._ctrl_reg[3] = @ + \h30,
                       !._scale_factor = "16g", !._scale_divide = 1024]
        ELSE Raise(c, "RuntimeError")

_scale(w, scale) ==
    LET c == [w EXCEPT !._ctrl_reg[3] = BitAnd(@, \h30)]
    IN  IF scale = "2g"
        THEN [c EXCEPT !._scale_factor = "2g", !._scale_divide = 16384]
        ELSE IF scale = "4g"
        THEN [c EXCEPT !._ctrl_reg[3] = BitOr(@, \h10),
                       !._scale_factor = "4g", !._scale_divide = 8192]
        ELSE IF scale = "8g"
        THEN [c EXCEPT !._ctrl_reg[3] = BitOr(@, \h20),
                       !._scale_factor = "8g", !._scale_divide = 4096]
        ELSE IF scale = "16g"
        THEN [c EXCEPT !._ctrl_reg[3] = BitOr(@, \h30),
                       !._scale_factor = "16g", !._scale_divide = 1024]
        ELSE Raise(c, "RuntimeError")

(* ---------------------------------------------------------------------- *)
(* Bus transport and hardware timer                                        *)
(* ---------------------------------------------------------------------- *)
(* i2c.writeto_mem(address, reg, data).  The device's control block is at  *)
(* 0x20..0x25 (dev[0..5]); bit 7 of the sub-address selects address        *)
(* auto-increment, without it every data byte lands in the same register.  *)
writeto_mem(w, reg, data) ==
    LET base == BitAnd(reg, \h7F) - \h20
        newdev == IF BitAnd(reg, \h80) # 0
                  THEN [i \in 0..5 |->
                          IF i >= base /\ i - base < Len(data)
                          THEN data[i - base + 1] ELSE w.dev[i]]
                  ELSE [w.dev EXCEPT ![base] = data[Len(data)]]
    IN  [w EXCEPT !.writes = Append(@, [reg |-> reg, data |-> data]),
                  !.dev = newdev]

(* self._timer.init(period=..., mode=ONE_SHOT, callback=...) *)
timer_init(w, period, callback) ==
    IF w._timer = NoneTimer THEN Raise(w, "AttributeError")
    ELSE [w EXCEPT !.alarms = {a \in @ : a.id # w._timer} \cup
                     {[id |-> w._timer, period |-> period,
                       callback |-> callback]}]

(* ---------------------------------------------------------------------- *)
(* Backlight                                                               *)
(* ---------------------------------------------------------------------- *)
(* b'\FF' is the three bytes '\', 'F', 'F'; b'\00' is the single byte 0 *)
_enable_backlight(w, enable) ==
    IF enable
    THEN writeto_mem(SetReg(w, 5, \hFF), \h25, <<\h5C, \h46, \h46>>)
    ELSE writeto_mem(SetReg(w, 5, \h00), \h25, <<\h00>>)

(* variant: the disabling callback re-arms with the duty itself *)
_enable_backlight_timer_on_duty(w) ==
    LET c == _enable_backlight(w, FALSE)
    IN  IF ~c._stop_timer
        THEN timer_init(c, c._backlight_duty, "_enable_backlight_timer_off")
        ELSE c

_enable_backlight_timer_on(w) ==
    LET c == _enable_backlight(w, FALSE)
    IN  IF ~c._stop_timer
        THEN timer_init(c, BACKLIGHT_MAX - c._backlight_duty,
                        "_enable_backlight_timer_off")
        ELSE c

(* variant: the enabling callback never re-arms the one-shot *)
_enable_backlight_timer_off_once(w) == _enable_backlight(w, TRUE)

(* variant: the enabling callback re-arms with MAX minus the duty *)
_enable_backlight_timer_off_rest(w) ==
    LET c == _enable_backlight(w, TRUE)
    IN  IF ~c._stop_timer
        THEN timer_init(c, BACKLIGHT_MAX - c._backlight_duty,
                        "_enable_backlight_timer_on")
        ELSE c

_enable_backlight_timer_off(w) ==
    LET c == _enable_backlight(w, TRUE)
    IN  IF ~c._stop_timer
        THEN timer_init(c, c._backlight_duty, "_enable_backlight_timer_on")
        ELSE c

(* ---------------------------------------------------------------------- *)
(* modify                                                                  *)
(* ---------------------------------------------------------------------- *)
(* an exception is propagating: the statements that follow do not run *)
Raised(w) == w.raised # "none"

(* lines 111-125: each setting is applied when it is given (truthy) and    *)
(* no earlier statement raised                                             *)
modify_sensors(w, args) ==
    IF args.sensors = {} THEN w
    ELSE _enable_sensors(w, args.sensors)

modify_bit_mode(w, args) ==
    IF Raised(w) \/ args.bit_mode = 0 THEN w
    ELSE _measurement_size(w, args.bit_mode)

modify_data_rate(w, args) ==
    IF Raised(w) \/ args.data_rate = "" THEN w
    ELSE _data_rate(w, args.data_rate)

modify_scale(w, args) ==
    IF Raised(w) \/ args.scale = "" THEN w
    ELSE _scale(w, args.scale)

modify_output_units(w, args) ==
    IF Raised(w) \/ args.output_units = "" THEN w
    ELSE IF args.output_units \in {"SI", "G"}
    THEN [w EXCEPT !._output_units = args.output_units]
    ELSE Raise(w, "RuntimeError")

modify_settings(w, args) ==
    modify_output_units(
        modify_scale(
            modify_data_rate(
                modify_bit_mode(
                    modify_sensors(w, args), args), args), args), args)

(* variant: the upper clamp taken at MAX itself (>= for >) *)
modify_backlight_ge(w, backlight_duty) ==
    IF backlight_duty # 0
    THEN LET c == [w EXCEPT !._timer = NoneTimer]
             d == IF BACKLIGHT_MIN > backlight_duty
                  THEN [c EXCEPT !._stop_timer = TRUE,
                                 !._backlight_duty = BACKLIGHT_MIN]
                  ELSE IF backlight_duty >= BACKLIGHT_MAX
                  THEN [c EXCEPT !._stop_timer = TRUE,
                                 !._backlight_duty = BACKLIGHT_MAX]
                  ELSE _enable_backlight_timer_on(
                         [c EXCEPT !._backlight_duty = backlight_duty,
                                   !._stop_timer = FALSE,
                                   !._timer = _timer_value])
         IN  IF Raised(d) THEN d
             ELSE _enable_backlight(d, d._backlight_duty # 0)
    ELSE w

(* lines 127-142 *)
modify_backlight(w, backlight_duty) ==
    IF backlight_duty # 0
    THEN LET c == [w EXCEPT !._timer = NoneTimer]
             d == IF BACKLIGHT_MIN > backlight_duty
                  THEN [c EXCEPT !._stop_timer = TRUE,
                                 !._backlight_duty = BACKLIGHT_MIN]
                  ELSE IF backlight_duty > BACKLIGHT_MAX
                  THEN [c EXCEPT !._stop_timer = TRUE,
                                 !._backlight_duty = BACKLIGHT_MAX]
                  ELSE _enable_backlight_timer_on(
                         [c EXCEPT !._backlight_duty = backlight_duty,
                                   !._stop_timer = FALSE,
                                   !._timer = _timer_value])
         IN  IF Raised(d) THEN d
             ELSE _enable_backlight(d, d._backlight_duty # 0)
    ELSE w

(* lines 144-147: the six registers in one write at 0xA0 *)
byte_array(w) == [i \in 1..6 |-> PackB(w._ctrl_reg[i - 1])]

modify_write(w) == writeto_mem(w, \hA0, byte_array(w))

(* variant: the backlight block run before the settings are applied *)
modify_backlight_first(w, args) ==
    LET b == modify_backlight(w, args.backlight_duty)
        s == IF Raised(b) THEN b ELSE modify_settings(b, args)
    IN  IF Raised(s) THEN s ELSE modify_write(s)

modify(w, args) ==
    LET s == modify_settings(w, args)
        b == IF Raised(s) THEN s ELSE modify_backlight(s, args.backlight_duty)
    IN  IF Raised(b) THEN b ELSE modify_write(b)

(* ---------------------------------------------------------------------- *)
(* Actions                                                                 *)
(* ---------------------------------------------------------------------- *)
Apply(w) ==
    /\ _ctrl_reg' = w._ctrl_reg
    /\ _bit_mode' = w._bit_mode
    /\ _scale_factor' = w._scale_factor
    /\ _scale_divide' = w._scale_divide
    /\ _output_units' = w._output_units
    /\ _backlight_duty' = w._backlight_duty
    /\ _stop_timer' = w._stop_timer
    /\ _timer' = w._timer
    /\ alarms' = w.alarms
    /\ dev' = w.dev

(* history of the latest call: its name, arguments, exception and bus      *)
(* writes; repeat marks a modify whose arguments are those of the          *)
(* successful modify that ran immediately before it                        *)
Record(op, args, w) ==
    last' = [op |-> op, args |-> args, raised |-> w.raised, writes |-> w.writes,
             repeat |-> /\ op = "modify"
                        /\ last.op \in {"modify", "__init__"}
                        /\ last.raised = "none"
                        /\ last.args = args]

(* modify() called without arguments: every setting None, duty 10 *)
NoArgs ==
    [sensors |-> {}, bit_mode |-> 0, data_rate |-> "", scale |-> "",
     output_units |-> "", backlight_duty |-> 10]

(* LIS2DH12(i2c, address): the constructor's defaults *)
DefaultArgs ==
    [sensors |-> {"x", "y", "z"}, bit_mode |-> 10, data_rate |-> "10Hz",
     scale |-> "2g", output_units |-> "G", backlight_duty |-> 10]

Modify(args) ==
    LET w == modify(World, args)
    IN  Apply(w) /\ Record("modify", args, w)

(* the armed one-shot expires and the timer subsystem runs its callback *)
TimerFire ==
    \E a \in alarms :
        LET w0 == [World EXCEPT !.alarms = @ \ {a}]
            w  == IF a.callback = "_enable_backlight_timer_on"
                  THEN _enable_backlight_timer_on(w0)
                  ELSE _enable_backlight_timer_off(w0)
        IN  Apply(w) /\ Record(a.callback, NoArgs, w)

(* ---------------------------------------------------------------------- *)
(* The driver: constructed, then reconfigured while the timer runs         *)
(* ---------------------------------------------------------------------- *)
(* Construct(args): the state __init__ leaves when it returns normally *)
Construct(args) ==
    LET w == modify(Fresh, args)
    IN  /\ w.raised = "none"
        /\ _ctrl_reg = w._ctrl_reg
        /\ _bit_mode = w._bit_mode
        /\ _scale_factor = w._scale_factor
        /\ _scale_divide = w._scale_divide
        /\ _output_units = w._output_units
        /\ _backlight_duty = w._backlight_duty
        /\ _stop_timer = w._stop_timer
        /\ _timer = w._timer
        /\ alarms = w.alarms
        /\ dev = w.dev
        /\ last = [op |-> "__init__", args |-> args,
                   raised |-> w.raised, writes |-> w.writes, repeat |-> FALSE]

(* ---------------------------------------------------------------------- *)
(* Spec: the backlight chain.  The driver is constructed with its          *)
(* defaults; the application changes the duty (and the range) while the    *)
(* one-shot timer fires.                                                   *)
(* ---------------------------------------------------------------------- *)
(* duty requests: below MIN, none, in range, MAX and up to MaxDuty *)
MaxDuty == 11

DutyIn == {-1, 0, 3, 5} \cup (BACKLIGHT_MAX..MaxDuty)

PwmArgs ==
    {[NoArgs EXCEPT !.backlight_duty = d] : d \in DutyIn} \cup
    {[NoArgs EXCEPT !.scale = v, !.backlight_duty = d] :
        v \in {"16g", "3g"}, d \in {0, 5}}

(* constructed with the default duty 10 or without backlight (duty 0) *)
Init ==
    \E d \in {0, BACKLIGHT_MAX} :
        Construct([DefaultArgs EXCEPT !.backlight_duty = d])

Next ==
    \/ \E args \in PwmArgs : Modify(args)
    \/ TimerFire

Spec == Init /\ [][Next]_vars

(* ---------------------------------------------------------------------- *)
(* SpecIrq: modify and the timer callback share the driver without a       *)
(* lock.  A callback scheduled by the timer interrupt runs between two     *)
(* bytecodes of the main program; here an armed one-shot expires while     *)
(* modify is between its backlight block (line 142) and its block write    *)
(* (line 147), and the callback runs there to completion.                  *)
(* ---------------------------------------------------------------------- *)
run_callback(w, a) ==
    IF a.callback = "_enable_backlight_timer_on"
    THEN _enable_backlight_timer_on([w EXCEPT !.alarms = @ \ {a}])
    ELSE _enable_backlight_timer_off([w EXCEPT !.alarms = @ \ {a}])

(* lines 111-142 of modify: everything before the block write *)
modify_before_write(w, args) ==
    LET s == modify_settings(w, args)
    IN  IF Raised(s) THEN s ELSE modify_backlight(s, args.backlight_duty)

(* irq is the position of the callback's write among the call's writes *)
ModifyInterrupted(args) ==
    LET b == modify_before_write(World, args)
    IN  /\ ~Raised(b)
        /\ \E a \in b.alarms :
              LET w == modify_write(run_callback(b, a))
              IN  /\ Apply(w)
                  /\ last' = [op |-> "modify", args |-> args,
                              raised |-> w.raised, writes |-> w.writes,
                              repeat |-> FALSE, irq |-> Len(b.writes) + 1]

NextIrq ==
    \/ \E args \in PwmArgs : Modify(args)
    \/ \E args \in PwmArgs : ModifyInterrupted(args)
    \/ TimerFire

SpecIrq == Init /\ [][NextIrq]_vars

(* ---------------------------------------------------------------------- *)
(* SpecLive: the application changes the duty, timer fires in between,     *)
(* until a call has set one of FinalDuties; after that call modify is not  *)
(* called again.  An armed hardware one-shot expires, so the firing of     *)
(* the timer is weakly fair.                                               *)
(* ---------------------------------------------------------------------- *)
FinalDuties == {3, BACKLIGHT_MAX}

Final == ~_stop_timer /\ _backlight_duty \in FinalDuties

ModifyUntilFinal(args) == ~Final /\ Modify(args)

NextLive ==
    \/ \E args \in PwmArgs : ModifyUntilFinal(args)
    \/ TimerFire

SpecLive == Init /\ [][NextLive]_vars /\ WF_vars(TimerFire)

(* ---------------------------------------------------------------------- *)
(* SpecCfg: reconfiguration.  Calls that give every setting, valid or      *)
(* not, and calls that give one keyword and leave the rest None.           *)
(* ---------------------------------------------------------------------- *)
FullArgs ==
    [sensors : {{"x"}}, bit_mode : {8, 10}, data_rate : {"10Hz", "1.620kHz"},
     scale : {"2g", "16g"}, output_units : {"SI", "mg"},
     backlight_duty : {5, 11}]

OneArgs ==
    {[NoArgs EXCEPT !.bit_mode = v, !.backlight_duty = 0] : v \in {8, 10, 9}} \cup
    {[NoArgs EXCEPT !.data_rate = v, !.backlight_duty = 0] :
        v \in {"1.620kHz", "2Hz"}} \cup
    {[NoArgs EXCEPT !.scale = v, !.backlight_duty = 0] : v \in {"2g", "3g"}} \cup
    {[NoArgs EXCEPT !.output_units = v, !.backlight_duty = 0] : v \in {"G", "mg"}}

CfgArgs == FullArgs \cup OneArgs

InitCfg == Construct([DefaultArgs EXCEPT !.backlight_duty = 5])

NextCfg ==
    \/ \E args \in CfgArgs : Modify(args)
    \/ TimerFire

SpecCfg == InitCfg /\ [][NextCfg]_vars

(* ---------------------------------------------------------------------- *)
(* SpecOk: partial reconfiguration in which every call returns normally.   *)
(* Each call names one setting; the calls that would raise are not made.   *)
(* ---------------------------------------------------------------------- *)
PartialArgs ==
    {[NoArgs EXCEPT !.sensors = v, !.backlight_duty = 0] : v \in {{"x"}, {"y", "z"}}} \cup
    {[NoArgs EXCEPT !.bit_mode = v, !.backlight_duty = 0] : v \in {8, 10, 12, 9}} \cup
    {[NoArgs EXCEPT !.data_rate = v, !.backlight_duty = 0] :
        v \in {"10Hz", "1.620kHz", "5.376kHz", "2Hz"}} \cup
    {[NoArgs EXCEPT !.scale = v, !.backlight_duty = 0] : v \in {"2g", "16g"}}

ModifyOk(args) == Modify(args) /\ last'.raised = "none"

NextOk ==
    \/ \E args \in PartialArgs : ModifyOk(args)
    \/ TimerFire

SpecOk == InitCfg /\ [][NextOk]_vars

(* ---------------------------------------------------------------------- *)
(* acceleration: the read path.  The six raw bytes come from the device;   *)
(* each axis is the signed little-endian 16-bit sample divided by          *)
(* _scale_divide and, for unit 'SI', multiplied by SI = 9.81.  The float   *)
(* is kept as the exact fraction num / den.                                *)
(* ---------------------------------------------------------------------- *)
SI_x100 == 981

(* ustruct.unpack('<h', value)[0] *)
unpack_h(value) ==
    LET u == value[1] + 256 * value[2]
    IN  IF u >= 32768 THEN u - 65536 ELSE u

acceleration(w, value_raw) ==
    [index \in 0..2 |->
        LET value == SubSeq(value_raw, index * 2 + 1, index * 2 + 2)
        IN  IF w._output_units = "SI"
            THEN [num |-> unpack_h(value) * SI_x100, den |-> w._scale_divide * 100]
            ELSE [num |-> unpack_h(value), den |-> w._scale_divide]]

Acceleration(value_raw) ==
    /\ last' = [op |-> "acceleration", args |-> NoArgs, raised |-> "none",
                writes |-> <<>>, repeat |-> FALSE, value_raw |-> value_raw,
                xyz |-> acceleration(World, value_raw)]
    /\ UNCHANGED <<_ctrl_reg, _bit_mode, _scale_factor, _scale_divide,
                   _output_units, _backlight_duty, _stop_timer, _timer,
                   alarms, dev>>

(* ---------------------------------------------------------------------- *)
(* SpecRead: range and unit are reconfigured, validly or not, between      *)
(* reads.  The driver is constructed without backlight, so no timer runs.  *)
(* ---------------------------------------------------------------------- *)
RawIn == {<<0, 64, 0, 0, 0, 0>>, <<255, 255, 0, 128, 1, 0>>}

ReadArgs ==
    {[NoArgs EXCEPT !.scale = s, !.output_units = u, !.backlight_duty = 0] :
        s \in {"", "2g", "16g", "3g"}, u \in {"", "G", "SI", "mg"}}

InitRead == Construct([DefaultArgs EXCEPT !.backlight_duty = 0])

NextRead ==
    \/ \E args \in ReadArgs : Modify(args)
    \/ \E value_raw \in RawIn : Acceleration(value_raw)

SpecRead == InitRead /\ [][NextRead]_vars

(* ---------------------------------------------------------------------- *)
(* SpecEnc: the encoders on their own, called in any order on the fields   *)
(* __init__ has just assigned (no mode resolved, image all zero).          *)
(* ---------------------------------------------------------------------- *)
AxesIn == SUBSET {"x", "y", "z"}
ModesIn == {8, 10, 12, 9}
RatesIn == {"power-down", "1Hz", "10Hz", "25Hz", "50Hz", "100Hz", "200Hz",
            "400Hz", "1.620kHz", "1.344kHz", "5.376kHz", "2Hz"}
RangesIn == {"2g", "4g", "8g", "16g", "3g"}

EnableSensors(sensors) ==
    LET w == _enable_sensors(World, sensors)
    IN  Apply(w) /\ Record("_enable_sensors", [NoArgs EXCEPT !.sensors = sensors], w)

MeasurementSize(bit_mode) ==
    LET w == _measurement_size(World, bit_mode)
    IN  Apply(w) /\ Record("_measurement_size", [NoArgs EXCEPT !.bit_mode = bit_mode], w)

DataRate(data_rate) ==
    LET w == _data_rate(World, data_rate)
    IN  Apply(w) /\ Record("_data_rate", [NoArgs EXCEPT !.data_rate = data_rate], w)

Scale(scale) ==
    LET w == _scale(World, scale)
    IN  Apply(w) /\ Record("_scale", [NoArgs EXCEPT !.scale = scale], w)

InitEnc ==
    /\ _ctrl_reg = Fresh._ctrl_reg
    /\ _bit_mode = Fresh._bit_mode
    /\ _scale_factor = Fresh._scale_factor
    /\ _scale_divide = Fresh._scale_divide
    /\ _output_units = Fresh._output_units
    /\ _backlight_duty = Fresh._backlight_duty
    /\ _stop_timer = Fresh._stop_timer
    /\ _timer = Fresh._timer
    /\ alarms = Fresh.alarms
    /\ dev = Fresh.dev
    /\ last = [op |-> "fields", args |-> NoArgs, raised |-> "none",
               writes |-> <<>>, repeat |-> FALSE]

NextEnc ==
    \/ \E sensors \in AxesIn : EnableSensors(sensors)
    \/ \E bit_mode \in ModesIn : MeasurementSize(bit_mode)
    \/ \E data_rate \in RatesIn : DataRate(data_rate)
    \/ \E scale \in RangesIn : Scale(scale)

SpecEnc == InitEnc /\ [][NextEnc]_vars

(* ---------------------------------------------------------------------- *)
(* Properties                                                              *)
(* ---------------------------------------------------------------------- *)
Succeeded(l) == l.raised = "none"
Failed(l) == l.raised # "none"

(* every setting of the record is given *)
IsFull(args) ==
    /\ args.sensors # {}
    /\ args.bit_mode # 0
    /\ args.data_rate # ""
    /\ args.scale # ""
    /\ args.output_units # ""

(* the write a successful modify ends with *)
BlockWrite(l) == l.writes[Len(l.writes)]

(* C1: a modify that repeats the full, valid settings of the modify just   *)
(* before it succeeds, leaves the 6-byte image as that call left it, and   *)
(* writes the same 6 bytes to the control block at 0xA0.                   *)
C1_ConfigureIdempotent ==
    [][ (last'.op = "modify" /\ last'.repeat /\ IsFull(last'.args)) =>
          /\ Succeeded(last')
          /\ _ctrl_reg' = _ctrl_reg
          /\ BlockWrite(last').reg = \hA0
          /\ Len(BlockWrite(last').data) = 6
          /\ BlockWrite(last') = BlockWrite(last) ]_vars

C1_Witness ==
    /\ last.op = "modify"
    /\ last.repeat
    /\ IsFull(last.args)
    /\ Succeeded(last)
    /\ last.args.backlight_duty = 5
    /\ last.args.scale = "2g"
    /\ BitAnd(_ctrl_reg[3], \h30) # 0

(* the 2-bit range code and the divisor the datasheet gives each range *)
RangeCode(scale) ==
    CASE scale = "2g" -> 0 [] scale = "4g" -> 1
      [] scale = "8g" -> 2 [] scale = "16g" -> 3

RangeDivisor(scale) ==
    CASE scale = "2g" -> 16384 [] scale = "4g" -> 8192
      [] scale = "8g" -> 4096 [] scale = "16g" -> 1024

RangeBits(reg3) == (reg3 \div 16) % 4

(* C2: after _scale(r) bits 4-5 of register 3 hold the code of r and the   *)
(* divisor of r is recorded, so the image and the divisor name one range.  *)
C2_RangeCodeMatchesDivisor ==
    /\ (last.op = "_scale" /\ Succeeded(last)) =>
          /\ RangeBits(_ctrl_reg[3]) = RangeCode(last.args.scale)
          /\ _scale_divide = RangeDivisor(last.args.scale)
    /\ _scale_factor # "" =>
          /\ RangeBits(_ctrl_reg[3]) = RangeCode(_scale_factor)
          /\ _scale_divide = RangeDivisor(_scale_factor)

(* the rates of the enumerated set, their 4-bit codes and mode demands *)
KnownRates ==
    {"power-down", "1Hz", "10Hz", "25Hz", "50Hz", "100Hz", "200Hz", "400Hz",
     "1.620kHz", "1.344kHz", "5.376kHz"}

RateCode(rate) ==
    CASE rate = "power-down" -> 0 [] rate = "1Hz" -> 1 [] rate = "10Hz" -> 2
      [] rate = "25Hz" -> 3 [] rate = "50Hz" -> 4 [] rate = "100Hz" -> 5
      [] rate = "200Hz" -> 6 [] rate = "400Hz" -> 7 [] rate = "1.620kHz" -> 8
      [] rate = "1.344kHz" -> 9 [] rate = "5.376kHz" -> 9

Compatible(rate, mode) ==
    /\ rate \in {"1.620kHz", "1.344kHz"} => mode = 8
    /\ rate = "5.376kHz" => mode \in {10, 12}

(* C3: _data_rate(r) for an enumerated r, under the mode the latest        *)
(* _measurement_size resolved (or none), fails exactly when r is           *)
(* incompatible with it; otherwise bits 4-7 of register 0 are r's code.    *)
C3_RateAfterResolution ==
    (last.op = "_data_rate" /\ last.args.data_rate \in KnownRates) =>
        IF Compatible(last.args.data_rate, _bit_mode)
        THEN Succeeded(last) /\ _ctrl_reg[0] \div 16 = RateCode(last.args.data_rate)
        ELSE Failed(last)

C3_Witness ==
    /\ last.op = "_data_rate"
    /\ last.args.data_rate = "5.376kHz"
    /\ _bit_mode = 8
    /\ Failed(last)

(* C4: a modify that raises leaves the image and the recorded mode,        *)
(* divisor and unit as they were before the call.                          *)
C4_RejectedBeforeMutation ==
    [][ (last'.op = "modify" /\ Failed(last')) =>
          /\ _ctrl_reg' = _ctrl_reg
          /\ _bit_mode' = _bit_mode
          /\ _scale_divide' = _scale_divide
          /\ _output_units' = _output_units ]_vars

(* C5: a modify that raises issues no bus write, and the device's control  *)
(* registers are as before the call.                                       *)
C5_NoWriteOnFailure ==
    [][ (last'.op = "modify" /\ Failed(last')) =>
          /\ last'.writes = <<>>
          /\ dev' = dev ]_vars

C5_Witness ==
    /\ last.op = "modify"
    /\ Failed(last)
    /\ last.args.backlight_duty = 5
    /\ \E i \in 0..4 : _ctrl_reg[i] # dev[i]

IndicatorOff(l) ==
    \E k \in 1..Len(l.writes) :
        l.writes[k].reg = \h25 /\ l.writes[k].data = <<\h00>>

(* C6: after modify with duty 0 the indicator has been written disabled    *)
(* and no timer is armed.                                                  *)
C6_DutyZeroForcesOff ==
    (last.op = "modify" /\ Succeeded(last) /\ last.args.backlight_duty = 0) =>
        /\ IndicatorOff(last)
        /\ _ctrl_reg[5] = \h00
        /\ alarms = {}

IsCallback(op) ==
    op \in {"_enable_backlight_timer_on", "_enable_backlight_timer_off"}

C8_OneTimerNoStaleCallback ==
    [][ /\ Cardinality(alarms') <= 1
        /\ (last'.op = "modify" /\ Succeeded(last')
              /\ last'.args.backlight_duty = 5) => Cardinality(alarms') = 1
        /\ (last'.op = "modify" /\ Succeeded(last')
              /\ _backlight_duty' # _backlight_duty) => alarms' \cap alarms = {} ]_vars

(* the bits of register i an encoder may not change *)
KeepMask(op, i) ==
    CASE op = "_enable_sensors" /\ i = 0 -> \hF8
      [] op = "_measurement_size" /\ i \in {0, 3} -> \hF7
      [] op = "_data_rate" /\ i = 0 -> \h0F
      [] op = "_scale" /\ i = 3 -> \hCF
      [] OTHER -> \hFF

IsEncoder(op) ==
    op \in {"_enable_sensors", "_measurement_size", "_data_rate", "_scale"}

(* C9: an encoder changes only the bits its field owns; every other bit    *)
(* of the six registers keeps its value.                                   *)
C9_EncodersTouchOwnBits ==
    [][ IsEncoder(last'.op) =>
          \A i \in 0..5 :
              BitAnd(_ctrl_reg'[i], KeepMask(last'.op, i)) =
              BitAnd(_ctrl_reg[i], KeepMask(last'.op, i)) ]_vars

AxesMask(sensors) ==
    (IF "x" \in sensors THEN 1 ELSE 0) + (IF "y" \in sensors THEN 2 ELSE 0)
      + (IF "z" \in sensors THEN 4 ELSE 0)

(* C10: after _enable_sensors(A) bits 0-2 of register 0 are exactly the    *)
(* mask of A; bits 3-7 of register 0 and registers 1-5 are unchanged.      *)
C10_AxesBits ==
    [][ last'.op = "_enable_sensors" =>
          /\ _ctrl_reg'[0] % 8 = AxesMask(last'.args.sensors)
          /\ _ctrl_reg'[0] \div 8 = _ctrl_reg[0] \div 8
          /\ \A i \in 1..5 : _ctrl_reg'[i] = _ctrl_reg[i] ]_vars

C10_Witness ==
    /\ last.op = "_enable_sensors"
    /\ last.args.sensors = {"y"}
    /\ _ctrl_reg[0] = \h92
    /\ _ctrl_reg[3] = \h38


(* C11: a modify that fails validation leaves the divisor and the unit     *)
(* that acceleration decodes with as the last successful modify recorded   *)
(* them, and acceleration decodes with exactly these.                      *)
C11_FailedConfigureKeepsDecoding ==
    [][ /\ (last'.op = "modify" /\ Failed(last')) =>
              /\ _scale_divide' = _scale_divide
              /\ _output_units' = _output_units
        /\ last'.op = "acceleration" =>
              \A index \in 0..2 :
                  /\ last'.xyz[index].den =
                        _scale_divide * (IF _output_units = "SI" THEN 100 ELSE 1)
                  /\ last'.xyz[index].num =
                        unpack_h(SubSeq(last'.value_raw, 2 * index + 1, 2 * index + 2))
                          * (IF _output_units = "SI" THEN SI_x100 ELSE 1) ]_vars


(* the positions of the writes to the indicator register 0x25 in a call *)
IndicatorWrites(l) == {k \in 1..Len(l.writes) : l.writes[k].reg = \h25}

(* C12: every write to the indicator register 0x25 carries exactly one     *)
(* byte, 0xFF or 0x00, and the last such write of an operation carries     *)
(* the value the operation left at index 5 of the image.                   *)
C12_IndicatorWriteOneByte ==
    \A k \in IndicatorWrites(last) :
        /\ Len(last.writes[k].data) = 1
        /\ last.writes[k].data[1] \in {\hFF, \h00}
        /\ (\A j \in IndicatorWrites(last) : j <= k) =>
              last.writes[k].data[1] = _ctrl_reg[5]


(* a call that names no setting, only a duty *)
DutyOnly(args) == args = [NoArgs EXCEPT !.backlight_duty = args.backlight_duty]

(* C13: after every modify the stored duty lies in MIN..MAX and a call     *)
(* that names only a duty does not fail; a request below MIN stores MIN    *)
(* and sets the stop flag, one above MAX stores MAX and sets the stop      *)
(* flag, one in 1..MAX stores the request and clears the stop flag.        *)
C13_DutyClamped ==
    [][ last'.op = "modify" =>
          /\ _backlight_duty' \in BACKLIGHT_MIN..BACKLIGHT_MAX
          /\ DutyOnly(last'.args) => Succeeded(last')
          /\ (Succeeded(last') /\ last'.args.backlight_duty < BACKLIGHT_MIN) =>
                (_backlight_duty' = BACKLIGHT_MIN /\ _stop_timer')
          /\ (Succeeded(last') /\ last'.args.backlight_duty > BACKLIGHT_MAX) =>
                (_backlight_duty' = BACKLIGHT_MAX /\ _stop_timer')
          /\ (Succeeded(last') /\ last'.args.backlight_duty \in 1..BACKLIGHT_MAX) =>
                (_backlight_duty' = last'.args.backlight_duty /\ ~_stop_timer') ]_vars


(* the duty was clamped to MIN: stored MIN with the stop flag set *)
ClampedToMin == _stop_timer /\ _backlight_duty = BACKLIGHT_MIN

(* C14: a modify that clamps the duty to MIN cancels the armed one-shot    *)
(* and writes the indicator off; from then until a modify names a new      *)
(* duty, no timer callback runs and register 5 stays disabled in the       *)
(* image and on the device.                                                *)
C14_ClampToMinCancels ==
    [][ /\ (last'.op = "modify" /\ Succeeded(last')
              /\ last'.args.backlight_duty < BACKLIGHT_MIN) =>
              /\ alarms' = {}
              /\ _ctrl_reg'[5] = \h00
              /\ dev'[5] = \h00
        /\ (ClampedToMin /\ ~(last'.op = "modify" /\ last'.args.backlight_duty # 0)) =>
              /\ ~IsCallback(last'.op)
              /\ _ctrl_reg'[5] = \h00
              /\ dev'[5] = \h00 ]_vars


(* the one alarm of timer _timer_value, armed for period p to run cb *)
Armed(p, cb) == {[id |-> _timer_value, period |-> p, callback |-> cb]}

(* C15: while the chain runs, the callback that writes the output disabled *)
(* re-arms the one-shot with period d and the callback that writes it      *)
(* enabled re-arms with period MAX - d; the two callbacks alternate.       *)
C15_DisabledRearmsDuty ==
    [][ (IsCallback(last'.op) /\ ~_stop_timer') =>
          /\ last'.op = "_enable_backlight_timer_on" =>
                /\ BlockWrite(last').data = <<\h00>>
                /\ alarms' = Armed(_backlight_duty', "_enable_backlight_timer_off")
          /\ last'.op = "_enable_backlight_timer_off" =>
                /\ _ctrl_reg'[5] = \hFF
                /\ alarms' = Armed(BACKLIGHT_MAX - _backlight_duty',
                                   "_enable_backlight_timer_on")
          /\ IsCallback(last.op) => last'.op # last.op ]_vars

(* C15 as the code has it: the callback that writes the output disabled    *)
(* re-arms with period MAX - d, the one that writes it enabled re-arms     *)
(* with period d; each arms the other, so the two alternate.               *)
C15_DisabledRearmsRest ==
    [][ (IsCallback(last'.op) /\ ~_stop_timer') =>
          /\ last'.op = "_enable_backlight_timer_on" =>
                /\ BlockWrite(last').data = <<\h00>>
                /\ _ctrl_reg'[5] = \h00
                /\ alarms' = Armed(BACKLIGHT_MAX - _backlight_duty',
                                   "_enable_backlight_timer_off")
          /\ last'.op = "_enable_backlight_timer_off" =>
                /\ _ctrl_reg'[5] = \hFF
                /\ alarms' = Armed(_backlight_duty', "_enable_backlight_timer_on")
          /\ IsCallback(last.op) => last'.op # last.op ]_vars

C15_Witness ==
    /\ last.op = "_enable_backlight_timer_on"
    /\ ~_stop_timer
    /\ _backlight_duty = 3
    /\ alarms = Armed(7, "_enable_backlight_timer_off")


(* the period the armed one-shot was armed for: the length of the phase    *)
(* the output is in                                                        *)
PhaseLength(al) == (CHOOSE a \in al : TRUE).period

(* the indicator output as the image and the device hold it *)
OutputEnabled(reg, d) == reg[5] = \hFF /\ d[5] # \h00
OutputDisabled(reg, d) == reg[5] = \h00 /\ d[5] = \h00

LastToggleByte(l) ==
    LET k == CHOOSE k \in IndicatorWrites(l) : \A j \in IndicatorWrites(l) : j <= k
    IN  l.writes[k].data[Len(l.writes[k].data)]

(* C17: no timer callback writes the indicator register between the first  *)
(* and the last bus write of one modify, and the byte the block write of   *)
(* modify carries for register 5 is the byte the latest write to the       *)
(* indicator register left on the device.                                  *)
C17_NoInterleavedWrites ==
    [][ (last'.op = "modify" /\ Succeeded(last')) =>
          /\ "irq" \in DOMAIN last' =>
                ~(1 < last'.irq /\ last'.irq < Len(last'.writes))
          /\ BlockWrite(last').data[6] =
                IF IndicatorWrites(last') # {} THEN LastToggleByte(last')
                ELSE dev[5] ]_vars

(* two call orders that both return normally end with the same image *)
SameImage(a, b) == (~Raised(a) /\ ~Raised(b)) => a._ctrl_reg = b._ctrl_reg

(* C18: from every image, two different encoders among _enable_sensors,    *)
(* _measurement_size and _scale, and _data_rate with either of             *)
(* _enable_sensors and _scale once a mode is recorded, give the same       *)
(* image in both call orders.                                              *)
C18_EncodersCommute ==
    \A sensors \in AxesIn, bit_mode \in ModesIn, scale \in RangesIn :
        /\ SameImage(_measurement_size(_enable_sensors(World, sensors), bit_mode),
                     _enable_sensors(_measurement_size(World, bit_mode), sensors))
        /\ SameImage(_scale(_enable_sensors(World, sensors), scale),
                     _enable_sensors(_scale(World, scale), sensors))
        /\ SameImage(_scale(_measurement_size(World, bit_mode), scale),
                     _measurement_size(_scale(World, scale), bit_mode))
        /\ _bit_mode # NoneMode =>
              \A data_rate \in RatesIn :
                  /\ SameImage(_data_rate(_enable_sensors(World, sensors), data_rate),
                               _enable_sensors(_data_rate(World, data_rate), sensors))
                  /\ SameImage(_data_rate(_scale(World, scale), data_rate),
                               _scale(_data_rate(World, data_rate), scale))


(* C19: after modify calls that all returned normally, the rate code in    *)
(* bits 4-7 of register 0 is one of the enumerated codes and is legal for  *)
(* the mode: code 8 (1.620kHz) is present only while the recorded mode is  *)
(* 8 and the low-power bit 3 of register 0 is set.                         *)
C19_RateLegalForMode ==
    /\ _ctrl_reg[0] \div 16 \in {RateCode(r) : r \in KnownRates}
    /\ _ctrl_reg[0] \div 16 = RateCode("1.620kHz") =>
          /\ _bit_mode = 8
          /\ BitAnd(_ctrl_reg[0], \h08) # 0


(* C20: once a modify has set a duty in 1..MAX and modify is not called    *)
(* again, the chain never stops: always eventually a callback writes the   *)
(* output enabled and always eventually one writes it disabled, and after  *)
(* every callback exactly one one-shot is armed.                           *)
C20_ChainNeverStops ==
    /\ Final ~> (last.op = "_enable_backlight_timer_off"
                   /\ OutputEnabled(_ctrl_reg, dev))
    /\ Final ~> (last.op = "_enable_backlight_timer_on"
                   /\ OutputDisabled(_ctrl_reg, dev))
    /\ [](Final => (_backlight_duty \in 1..BACKLIGHT_MAX /\ Cardinality(alarms) = 1))

C20_Witness ==
    /\ Final
    /\ _backlight_duty = 3
    /\ last.op = "_enable_backlight_timer_off"
    /\ OutputEnabled(_ctrl_reg, dev)
    /\ alarms = Armed(3, "_enable_backlight_timer_on")

====
